---- MODULE Spec2Model ----
(***************************************************************************)
(* The chat client of the trip planning assistant: the ChatInterface       *)
(* component (frontend/src/components/Chat/ChatInterface.tsx, the version  *)
(* that keeps its messages in the TripPlanning context), the context       *)
(* reducer (frontend/README.md), the WebSocketService                      *)
(* (frontend/src/services/WebSocketService.ts) with the browser's          *)
(* WebSocket and timers under it, and the backend's turn streaming         *)
(* protocol handler at the other end of the socket.  The backend is not    *)
(* part of the TypeScript sources; its handler follows sections 4.5, 6     *)
(* and 7 of the specification.                                             *)
(*                                                                         *)
(* Every handler is an operator from a state record to a state record, so  *)
(* that a handler that calls other handlers is their composition in the    *)
(* order of the calls; an action of the state machine is one browser task  *)
(* (one event callback, one timer callback, one user event).               *)
(***************************************************************************)
EXTENDS Integers, Sequences, FiniteSets, TLC

\* ------------------------------------------------------------------------
\* Bounds of the model
MaxSubmits == 2      \* user messages accepted by handleSubmit
MaxFrags == 2        \* non-terminal fragments the backend emits per turn
MaxSockets == 2      \* WebSocket objects created by the service
MaxClock == 1        \* last reading of the millisecond clock
MaxMalformed == 1    \* frames that are not valid JSON
MaxWire == 2         \* events in flight towards the client
MaxConnectionSockets == 7   \* WebSocket objects of the connection model

\* ------------------------------------------------------------------------
\* Program constants
maxReconnectAttempts == 5
NULL == -1
NormalClosure == 1000

Turns == 1 .. MaxSubmits
SocketIds == 1 .. MaxSockets

\* The close codes a close event carries here: normal closure (the peer closed
\* on purpose), abnormal closure (the transport was lost, no close frame) and
\* internal error (the backend failed).
CloseCodes == {1000, 1006, 1011}

\* The close codes the close event of a WebSocket can carry after the client
\* called close() without a code on the open WebSocket: the code of the close
\* frame the peer answers with, or 1005 (no status code) when that frame has
\* none.
ClientCloseCodes == {1000, 1005}

\* A text is a sequence of tokens; the token <<t, k>> is fragment k of the
\* answer to user message t, <<t, 0>> is the text of user message t,
\* <<t, MaxFrags + 1>> the error text of a failed turn and <<0, t>> the
\* notice that queued message t was rejected.  String concatenation is \o.
EmptyText == << >>
UserText(t) == << <<t, 0>> >>
FragmentText(t, k) == << <<t, k>> >>
ErrorText(t) == << <<t, MaxFrags + 1>> >>
RejectionText(t) == << <<0, t>> >>

VARIABLES
    \* ChatInterface (React state, ref and the closure of the handlers)
    isConnected, isConnecting, connectionError, currentMessageId,
    isProcessingMessage, wsRef, handlers, isPlanningTrip, processingTimer,
    \* Home (app/page.tsx): isPlanning, and how often ChatInterface has
    \* called onPlanningStart and onPlanningComplete
    page,
    \* TripPlanning context
    state,
    \* WebSocketService
    socket, reconnectAttempts, reconnectTimeout,
    \* browser: WebSocket objects, pending timers of the service, pending
    \* timers of ChatInterface, Date.now()
    readyState, timers, fallbackTimers, now,
    \* network and backend
    wire, server, turns,
    \* history: callbacks delivered per turn, malformed frames injected
    cb, nMalformed,
    \* Intent Classifier: the input text and the intent returned for it
    query, intent,
    \* Session State Store: the session, the EntitySet merged last
    session, entity_set,
    \* WebSocketProvider: its React state and ref, the WebSocket objects it
    \* has created, its pending reconnect timers
    provider, providerSockets, providerTimers,
    \* AgentOrchestrator.planTrip: its argument, the agent executions it has
    \* started, the state of the call
    userInput, executions, planTripCall,
    \* ApiService.healthCheck: the state of the call
    healthCheckCall,
    \* TripPlanning context on its own: the action dispatched last
    dispatched

chatVars == <<isConnected, isConnecting, connectionError, currentMessageId,
              isProcessingMessage, wsRef, handlers, isPlanningTrip,
              processingTimer, page, state, socket, reconnectAttempts,
              reconnectTimeout, readyState, timers, fallbackTimers, now,
              wire, server, turns, cb, nMalformed>>

classifierVars == <<query, intent>>

storeVars == <<session, entity_set>>

providerVars == <<provider, providerSockets, providerTimers>>

orchestratorVars == <<userInput, executions, planTripCall>>

apiVars == <<healthCheckCall>>

reducerVars == <<dispatched>>

vars == <<chatVars, classifierVars, storeVars, providerVars,
          orchestratorVars, apiVars, reducerVars>>

\* The current state as one record; `calls` collects the handler callbacks
\* invoked during the task that is running.
Cur ==
    [isConnected |-> isConnected, isConnecting |-> isConnecting,
     connectionError |-> connectionError,
     currentMessageId |-> currentMessageId,
     isProcessingMessage |-> isProcessingMessage, wsRef |-> wsRef,
     handlers |-> handlers, isPlanningTrip |-> isPlanningTrip,
     processingTimer |-> processingTimer, page |-> page,
     fallbackTimers |-> fallbackTimers, state |-> state, socket |-> socket,
     reconnectAttempts |-> reconnectAttempts,
     reconnectTimeout |-> reconnectTimeout, readyState |-> readyState,
     timers |-> timers, now |-> now, wire |-> wire, server |-> server,
     turns |-> turns, cb |-> cb, nMalformed |-> nMalformed,
     calls |-> << >>]

\* ------------------------------------------------------------------------
\* TripPlanning context

initialState ==
    [tripData |-> NULL, isLoading |-> FALSE, error |-> NULL,
     messages |-> << >>]

\* Variant: ADD_MESSAGE puts the new message first
tripPlanningReducerPrepends(st, action) ==
    CASE action.type = "SET_TRIP_DATA" ->
            [st EXCEPT !.tripData = action.payload, !.isLoading = FALSE,
                       !.error = NULL]
      [] action.type = "SET_LOADING" ->
            [st EXCEPT !.isLoading = action.payload]
      [] action.type = "SET_ERROR" ->
            [st EXCEPT !.error = action.payload, !.isLoading = FALSE]
      [] action.type = "ADD_MESSAGE" ->
            [st EXCEPT !.messages = <<action.payload>> \o st.messages]
      [] action.type = "SET_MESSAGES" ->
            [st EXCEPT !.messages = action.payload]
      [] OTHER -> st

\* Variant: SET_ERROR leaves isLoading as it is
tripPlanningReducerErrorKeepsLoading(st, action) ==
    CASE action.type = "SET_TRIP_DATA" ->
            [st EXCEPT !.tripData = action.payload, !.isLoading = FALSE,
                       !.error = NULL]
      [] action.type = "SET_LOADING" ->
            [st EXCEPT !.isLoading = action.payload]
      [] action.type = "SET_ERROR" ->
            [st EXCEPT !.error = action.payload]
      [] action.type = "ADD_MESSAGE" ->
            [st EXCEPT !.messages = Append(st.messages, action.payload)]
      [] action.type = "SET_MESSAGES" ->
            [st EXCEPT !.messages = action.payload]
      [] OTHER -> st

tripPlanningReducer(st, action) ==
    CASE action.type = "SET_TRIP_DATA" ->
            [st EXCEPT !.tripData = action.payload, !.isLoading = FALSE,
                       !.error = NULL]
      [] action.type = "SET_LOADING" ->
            [st EXCEPT !.isLoading = action.payload]
      [] action.type = "SET_ERROR" ->
            [st EXCEPT !.error = action.payload, !.isLoading = FALSE]
      [] action.type = "ADD_MESSAGE" ->
            [st EXCEPT !.messages = Append(st.messages, action.payload)]
      [] action.type = "SET_MESSAGES" ->
            [st EXCEPT !.messages = action.payload]
      [] OTHER -> st

dispatch(S, action) ==
    [S EXCEPT !.state = tripPlanningReducer(S.state, action)]

\* ------------------------------------------------------------------------
\* ChatInterface: trip planning.
\*
\* The texts: the token <<0, 0>> in a user text stands for the words that
\* make it a trip planning query ('plan a trip').  Of the texts of the
\* backend, the second fragment of the answer to the first message holds a
\* JSON block with a TripData, the second fragment of every later answer
\* names a destination in its text, and no other text holds either.
\* A TripData is a number: ParsedTripData is the one parsed from a JSON
\* block, the others are built by createSampleTripData.

TripQueryText(t) == << <<t, 0>>, <<0, 0>> >>

\* setTimeout returns a handle that no pending timer and no kept handle has
Max(set) == CHOOSE m \in set : \A n \in set : n <= m

isTripPlanningQuery(inputValue) ==
    \E i \in 1 .. Len(inputValue) : inputValue[i] = <<0, 0>>

HasTripJson(content) ==
    \E i \in 1 .. Len(content) : content[i] = <<1, 2>>

NamesDestination(content) ==
    \E i \in 1 .. Len(content) : content[i][1] >= 2 /\ content[i][2] = 2

ParsedTripData == 1

\* The trip inputs of the model: the destination found in a text, the
\* input of the trip form
MatchedDestination == 1
FormTripInput == 2

\* createSampleTripData(tripInput?): tripInput is << >> when left out
createSampleTripData(tripInput) ==
    IF tripInput = << >> THEN 2 ELSE 2 + tripInput[1]

extractTripDataFromResponse(messages) ==
    LET assistantMessages ==
            SelectSeq(messages, LAMBDA msg : msg.role = "assistant")
    IN  IF Len(assistantMessages) = 0 THEN NULL
        ELSE IF \E i \in 1 .. Len(assistantMessages) :
                    HasTripJson(assistantMessages[i].content)
        THEN ParsedTripData
        ELSE IF NamesDestination(
                    assistantMessages[Len(assistantMessages)].content)
        THEN createSampleTripData(<<MatchedDestination>>)
        ELSE NULL

onPlanningStart(S) ==
    [S EXCEPT !.page.isPlanning = TRUE, !.page.started = @ + 1]

onPlanningComplete(S) ==
    [S EXCEPT !.page.isPlanning = FALSE, !.page.completed = @ + 1]

\* clearTimeout(id) for a timer of ChatInterface
clearFallback(S, id) ==
    [S EXCEPT !.fallbackTimers = {tm \in @ : tm.id # id}]

\* setTimeout(callback, 10000) of a submit: the callback holds what its
\* render's state.messages give (extracted) and the sample it falls back to
setFallback(S, extracted, sample) ==
    LET id == 1 + Max({tm.id : tm \in S.fallbackTimers}
                          \cup {S.processingTimer, 0})
    IN  [S EXCEPT !.fallbackTimers =
                      @ \cup {[id |-> id, extracted |-> extracted,
                                sample |-> sample]},
                  !.processingTimer = id]

\* The planning part of a submit: planning starts, the timer of the
\* previous request is cleared and a new one is set
startPlanning(S, extracted, sample) ==
    LET S1 == dispatch(onPlanningStart([S EXCEPT !.isPlanningTrip = TRUE]),
                       [type |-> "SET_LOADING", payload |-> TRUE])
        S2 == IF S.processingTimer # NULL
              THEN clearFallback(S1, S.processingTimer)
              ELSE S1
    IN  setFallback(S2, extracted, sample)

\* The planning is completed with tripData
completePlanning(S, tripData) ==
    LET S1 == dispatch(S, [type |-> "SET_TRIP_DATA", payload |-> tripData])
        S2 == dispatch(S1, [type |-> "SET_LOADING", payload |-> FALSE])
    IN  [onPlanningComplete(S2) EXCEPT !.isPlanningTrip = FALSE]

\* Variant: the callback of the timer completes the planning only with
\* TripData found in the messages (as an earlier handleSubmit did)
fallbackExpiredOnlyExtracted(S, tm) ==
    LET S1 == [S EXCEPT !.fallbackTimers = @ \ {tm}]
    IN  IF tm.extracted # NULL THEN completePlanning(S1, tm.extracted)
        ELSE S1

\* The callback of the timer of a submit
fallbackExpired(S, tm) ==
    LET S1 == [S EXCEPT !.fallbackTimers = @ \ {tm}]
        tripData == IF tm.extracted # NULL THEN tm.extracted ELSE tm.sample
    IN  completePlanning(S1, tripData)

\* Variant: the effect leaves the pending timer as it is
tripDataEffectKeepsTimer(S) ==
    IF ~S.isPlanningTrip
    THEN S
    ELSE LET tripData == extractTripDataFromResponse(S.state.messages)
         IN  IF tripData = NULL THEN S
             ELSE completePlanning(S, tripData)

\* The effect that looks for trip data in the messages; it runs after the
\* render
tripDataEffect(S) ==
    IF ~S.isPlanningTrip
    THEN S
    ELSE LET tripData == extractTripDataFromResponse(S.state.messages)
         IN  IF tripData = NULL THEN S
             ELSE LET S1 == completePlanning(S, tripData)
                  IN  IF S.processingTimer # NULL
                      THEN [clearFallback(S1, S.processingTimer)
                               EXCEPT !.processingTimer = NULL]
                      ELSE S1

\* The end of a task: the component renders with the state the task has
\* set, the effects of the render run, and the result is the next state
Commit(S) ==
    LET R == tripDataEffect(S) IN
    /\ isConnected' = R.isConnected
    /\ isConnecting' = R.isConnecting
    /\ connectionError' = R.connectionError
    /\ currentMessageId' = R.currentMessageId
    /\ isProcessingMessage' = R.isProcessingMessage
    /\ wsRef' = R.wsRef
    /\ handlers' = R.handlers
    /\ isPlanningTrip' = R.isPlanningTrip
    /\ processingTimer' = R.processingTimer
    /\ page' = R.page
    /\ state' = R.state
    /\ socket' = R.socket
    /\ reconnectAttempts' = R.reconnectAttempts
    /\ reconnectTimeout' = R.reconnectTimeout
    /\ readyState' = R.readyState
    /\ timers' = R.timers
    /\ fallbackTimers' = R.fallbackTimers
    /\ now' = R.now
    /\ wire' = R.wire
    /\ server' = R.server
    /\ turns' = R.turns
    /\ cb' = R.cb
    /\ nMalformed' = R.nMalformed
    /\ UNCHANGED <<classifierVars, storeVars, providerVars,
                   orchestratorVars, apiVars, reducerVars>>

\* ------------------------------------------------------------------------
\* ChatInterface: the handlers object built by connectToWebSocket.
\*
\* The handlers are closures created inside connectToWebSocket, in the
\* scope of the render that called it.  What they READ of the component
\* (currentMessageId, state.messages) are the constants of that render,
\* kept in `handlers`; what they WRITE goes through the state setters and
\* dispatch and reaches the live state.

Called(S, name) == [S EXCEPT !.calls = Append(@, name)]

\* Variant: onOpen leaves isConnecting as it is
onOpenKeepsConnecting(S) == Called([S EXCEPT !.isConnected = TRUE], "onOpen")

onOpen(S) ==
    Called([S EXCEPT !.isConnected = TRUE, !.isConnecting = FALSE], "onOpen")

\* Variant: the handler reads the live currentMessageId and state.messages
onMessageLiveScope(S, text) ==
    LET scope == [currentMessageId |-> S.currentMessageId,
                  messages |-> S.state.messages]
        S1 == Called([S EXCEPT !.isProcessingMessage = FALSE], "onMessage")
    IN  IF scope.currentMessageId = NULL
        THEN LET newMessageId == S.now
                 newMessage == [id |-> newMessageId, role |-> "assistant",
                                content |-> text]
             IN  dispatch([S1 EXCEPT !.currentMessageId = newMessageId],
                          [type |-> "ADD_MESSAGE", payload |-> newMessage])
        ELSE LET updatedMessages ==
                     [i \in 1 .. Len(scope.messages) |->
                         IF scope.messages[i].id = scope.currentMessageId
                         THEN [scope.messages[i] EXCEPT !.content = @ \o text]
                         ELSE scope.messages[i]]
             IN  dispatch(S1, [type |-> "SET_MESSAGES",
                               payload |-> updatedMessages])

onMessage(S, text) ==
    LET scope == S.handlers
        S1 == Called([S EXCEPT !.isProcessingMessage = FALSE], "onMessage")
    IN  IF scope.currentMessageId = NULL
        THEN LET newMessageId == S.now
                 newMessage == [id |-> newMessageId, role |-> "assistant",
                                content |-> text]
             IN  dispatch([S1 EXCEPT !.currentMessageId = newMessageId],
                          [type |-> "ADD_MESSAGE", payload |-> newMessage])
        ELSE LET updatedMessages ==
                     [i \in 1 .. Len(scope.messages) |->
                         IF scope.messages[i].id = scope.currentMessageId
                         THEN [scope.messages[i] EXCEPT !.content = @ \o text]
                         ELSE scope.messages[i]]
             IN  dispatch(S1, [type |-> "SET_MESSAGES",
                               payload |-> updatedMessages])

onTurnComplete(S) ==
    Called([S EXCEPT !.currentMessageId = NULL,
                     !.isProcessingMessage = FALSE], "onTurnComplete")

\* Variant: the interrupted signal leaves the current message open
onInterruptedKeepsMessage(S) == Called(S, "onInterrupted")

onInterrupted(S) ==
    Called([S EXCEPT !.currentMessageId = NULL], "onInterrupted")

\* Variant: a close also ends the current message, like a completed turn
onCloseEndsTurn(S) ==
    Called([S EXCEPT !.isConnected = FALSE, !.isProcessingMessage = FALSE,
                     !.currentMessageId = NULL], "onClose")

onClose(S) ==
    Called([S EXCEPT !.isConnected = FALSE, !.isProcessingMessage = FALSE],
           "onClose")

onError(S) ==
    Called([S EXCEPT !.connectionError = "failed", !.isConnecting = FALSE,
                     !.isConnected = FALSE, !.isProcessingMessage = FALSE],
           "onError")

\* ------------------------------------------------------------------------
\* Backend: the turn streaming protocol handler of one session.
\* turns[t] is the history of user message t: the WebSocket it was sent on,
\* the turn that streamed when it reached the backend (behind), and its
\* status: unsent, lost (sent into a connection the backend had left),
\* queued, streaming, complete, failed, interrupted, rejected, dropped.
\* (specification 4.5: one turn streams at a time, a message that arrives
\* meanwhile waits in a queue of depth one, a newer one replaces it and the
\* replaced one is answered by a rejection frame).

Frame(message, turn_complete, interrupted) ==
    [valid |-> TRUE, message |-> message, turn_complete |-> turn_complete,
     interrupted |-> interrupted]

MessageEvent(s, t, data) ==
    [sock |-> s, kind |-> "message", turn |-> t, data |-> data]

CloseEvent(s, code, withError) ==
    [sock |-> s, kind |-> "close", code |-> code, withError |-> withError]

idleServer == [conn |-> NULL, cur |-> NULL, sent |-> 0, queued |-> NULL]

\* Variant: a message that arrives during a turn starts its turn at once
ServerReceiveStartsAtOnce(S, t) ==
    [S EXCEPT !.server.cur = t, !.server.sent = 0,
              !.turns[t].status = "streaming",
              !.turns[t].behind = S.server.cur]

ServerReceive(S, t) ==
    LET srv == S.server IN
    IF srv.cur = NULL
    THEN [S EXCEPT !.server.cur = t, !.server.sent = 0,
                   !.turns[t].status = "streaming"]
    ELSE IF srv.queued = NULL
    THEN [S EXCEPT !.server.queued = t, !.turns[t].status = "queued",
                   !.turns[t].behind = srv.cur]
    ELSE [S EXCEPT !.server.queued = t, !.turns[t].status = "queued",
                   !.turns[t].behind = srv.cur,
                   !.turns[srv.queued].status = "rejected",
                   !.wire = Append(@, MessageEvent(srv.conn, 0,
                              Frame(RejectionText(srv.queued), FALSE, FALSE)))]

\* The connection of the session ends at the backend: the in-flight turn
\* becomes interrupted, a queued message is dropped, nothing is sent.
ServerDisconnect(S) ==
    LET srv == S.server IN
    [S EXCEPT !.server = idleServer,
              !.turns = [t \in Turns |->
                  IF t = srv.cur THEN [@[t] EXCEPT !.status = "interrupted"]
                  ELSE IF t = srv.queued THEN [@[t] EXCEPT !.status = "dropped"]
                  ELSE @[t]]]

\* socket.send(text) on WebSocket s: the text travels to the backend if the
\* backend still holds the connection, and is lost otherwise.
SocketSend(S, s, text) ==
    LET t == text[1][1]
        S1 == [S EXCEPT !.turns[t].sock = s]
    IN  IF S.server.conn = s
        THEN ServerReceive(S1, t)
        ELSE [S1 EXCEPT !.turns[t].status = "lost"]

\* ------------------------------------------------------------------------
\* WebSocketService

FreeSockets(S) == {s \in DOMAIN S.readyState : S.readyState[s] = "NONE"}
NewSocket(S) == CHOOSE s \in FreeSockets(S) : \A r \in FreeSockets(S) : s <= r

connect(S) ==
    LET s == NewSocket(S) IN
    [S EXCEPT !.socket = s, !.readyState[s] = "CONNECTING"]

sendMessage(S, text) ==
    IF S.socket # NULL /\ S.readyState[S.socket] = "OPEN"
    THEN SocketSend(S, S.socket, text)
    ELSE onError(S)

handleOpen(S) == onOpen([S EXCEPT !.reconnectAttempts = 0])

\* JSON.parse(event.data): the parsed object, or an exception
JSONparse(data) == [ok |-> data.valid, value |-> data]

Truthy(text) == text # EmptyText

\* Variant: the terminal callbacks are called before the text is delivered
handleMessageTerminalFirst(S, event) ==
    LET parsed == JSONparse(event.data)
        data == parsed.value
    IN  IF ~parsed.ok
        THEN onError(S)
        ELSE LET S1 == IF data.turn_complete THEN onTurnComplete(S) ELSE S
                 S2 == IF data.interrupted THEN onInterrupted(S1) ELSE S1
             IN  IF Truthy(data.message) THEN onMessage(S2, data.message)
                 ELSE S2

handleMessage(S, event) ==
    LET parsed == JSONparse(event.data)
        data == parsed.value
    IN  IF ~parsed.ok
        THEN onError(S)
        ELSE LET S1 == IF Truthy(data.message) THEN onMessage(S, data.message)
                       ELSE S
                 S2 == IF data.turn_complete THEN onTurnComplete(S1) ELSE S1
             IN  IF data.interrupted THEN onInterrupted(S2) ELSE S2

Min(a, b) == IF a < b THEN a ELSE b

RECURSIVE Pow2(_)
Pow2(n) == IF n = 0 THEN 1 ELSE 2 * Pow2(n - 1)

TimerIds(S) == {tm.id : tm \in S.timers}

\* Variant: the attempts are compared with <=, which allows one attempt more
attemptReconnectOneMore(S) ==
    IF S.reconnectAttempts <= maxReconnectAttempts
    THEN LET n == S.reconnectAttempts + 1
             delay == Min(1000 * Pow2(n), 30000)
             id == 1 + Max(TimerIds(S) \cup {S.reconnectTimeout, 0})
         IN  [S EXCEPT !.reconnectAttempts = n,
                       !.timers = @ \cup {[id |-> id, delay |-> delay]},
                       !.reconnectTimeout = id]
    ELSE onError(S)

\* Variant: the delay doubles without the cap of 30000 ms
attemptReconnectNoCap(S) ==
    IF S.reconnectAttempts < maxReconnectAttempts
    THEN LET n == S.reconnectAttempts + 1
             delay == 1000 * Pow2(n)
             id == 1 + Max(TimerIds(S) \cup {S.reconnectTimeout, 0})
         IN  [S EXCEPT !.reconnectAttempts = n,
                       !.timers = @ \cup {[id |-> id, delay |-> delay]},
                       !.reconnectTimeout = id]
    ELSE onError(S)

attemptReconnect(S) ==
    IF S.reconnectAttempts < maxReconnectAttempts
    THEN LET n == S.reconnectAttempts + 1
             delay == Min(1000 * Pow2(n), 30000)
             id == 1 + Max(TimerIds(S) \cup {S.reconnectTimeout, 0})
         IN  [S EXCEPT !.reconnectAttempts = n,
                       !.timers = @ \cup {[id |-> id, delay |-> delay]},
                       !.reconnectTimeout = id]
    ELSE onError(S)

handleClose(S, event) ==
    LET S1 == IF event.code # NormalClosure THEN attemptReconnect(S) ELSE S
    IN  onClose(S1)

handleError(S) == onError(S)

\* WebSocket.close() of the browser on WebSocket s, without a code.  A
\* WebSocket that is connecting fails (error event, then close event with
\* code 1006); an open one starts the closing handshake, the backend sees the
\* connection end, and the close event carries `code` unless a close event
\* of the WebSocket is under way already.  From the call on the WebSocket
\* is CLOSING and delivers no message event.
WebSocketClose(S, s, code) ==
    IF S.readyState[s] \notin {"CONNECTING", "OPEN"}
    THEN S
    ELSE LET event == IF S.readyState[s] = "CONNECTING"
                      THEN CloseEvent(s, 1006, TRUE)
                      ELSE CloseEvent(s, code, FALSE)
             kept == SelectSeq(S.wire,
                         LAMBDA e : e.sock # s \/ e.kind = "close")
             closing == \E i \in 1 .. Len(kept) : kept[i].sock = s
             S1 == [S EXCEPT !.readyState[s] = "CLOSING",
                             !.wire = IF closing THEN kept
                                      ELSE Append(kept, event)]
         IN  IF S.server.conn = s THEN ServerDisconnect(S1) ELSE S1

\* clearTimeout(id)
clearTimeout(S, id) == [S EXCEPT !.timers = {tm \in @ : tm.id # id}]

disconnect(S, code) ==
    LET S1 == IF S.socket # NULL
              THEN [WebSocketClose(S, S.socket, code) EXCEPT !.socket = NULL]
              ELSE S
    IN  IF S1.reconnectTimeout # NULL
        THEN [clearTimeout(S1, S1.reconnectTimeout)
                 EXCEPT !.reconnectTimeout = NULL]
        ELSE S1

\* ------------------------------------------------------------------------
\* ChatInterface: connecting and submitting

\* Variant: without the wsRef.current guard (as long as the model has a
\* WebSocket object left)
connectToWebSocketNoGuard(S) ==
    IF FreeSockets(S) = {}
    THEN S
    ELSE connect([S EXCEPT
             !.isConnecting = TRUE, !.connectionError = "null",
             !.handlers = [currentMessageId |-> S.currentMessageId,
                           messages |-> S.state.messages],
             !.wsRef = TRUE])

connectToWebSocket(S) ==
    IF S.wsRef
    THEN S
    ELSE connect([S EXCEPT
             !.isConnecting = TRUE, !.connectionError = "null",
             !.handlers = [currentMessageId |-> S.currentMessageId,
                           messages |-> S.state.messages],
             !.wsRef = TRUE])

disconnectWebSocket(S, code) ==
    IF S.wsRef
    THEN [disconnect(S, code) EXCEPT !.wsRef = FALSE, !.isConnected = FALSE]
    ELSE S

\* What a submit does with the planning it has started when it finds
\* wsRef.current empty: the planning is completed, and the timer that the
\* render of the submit knew (processingTimer) is cleared
abandonPlanning(S, processingTimerOfRender) ==
    LET S1 == dispatch(S, [type |-> "SET_LOADING", payload |-> FALSE])
        S2 == [onPlanningComplete(S1) EXCEPT !.isPlanningTrip = FALSE]
    IN  IF processingTimerOfRender # NULL
        THEN [clearFallback(S2, processingTimerOfRender)
                 EXCEPT !.processingTimer = NULL]
        ELSE S2

\* handleSubmit for a non-empty inputValue
handleSubmit(S, inputValue) ==
    IF ~S.isConnected
    THEN LET S1 == IF ~S.isConnecting THEN connectToWebSocket(S) ELSE S
         IN  [S1 EXCEPT !.connectionError = "connecting"]
    ELSE LET S0 == IF isTripPlanningQuery(inputValue)
                   THEN startPlanning(S,
                            extractTripDataFromResponse(S.state.messages),
                            createSampleTripData(<< >>))
                   ELSE S
             userMessage == [id |-> S.now, role |-> "user",
                             content |-> inputValue]
             S1 == dispatch(S0, [type |-> "ADD_MESSAGE",
                                 payload |-> userMessage])
             S2 == [S1 EXCEPT !.isProcessingMessage = TRUE]
         IN  IF S2.wsRef
             THEN sendMessage(S2, inputValue)
             ELSE LET S3 == [S2 EXCEPT !.connectionError = "not connected",
                                       !.isProcessingMessage = FALSE]
                  IN  IF isTripPlanningQuery(inputValue)
                      THEN abandonPlanning(S3, S.processingTimer)
                      ELSE S3

\* The timer that handleTripInputSubmit sets when it finds wsRef.current
\* empty (2000 ms): it completes the planning
setRescue(S, extracted, sample) ==
    LET id == 1 + Max({tm.id : tm \in S.fallbackTimers}
                          \cup {S.processingTimer, 0})
    IN  [S EXCEPT !.fallbackTimers =
                      @ \cup {[id |-> id, extracted |-> extracted,
                                sample |-> sample]}]

\* handleTripInputSubmit(tripInput): the text sent is a trip planning query
\* made of the fields of the form
handleTripInputSubmit(S, tripQueryText) ==
    IF ~S.isConnected
    THEN LET S1 == IF ~S.isConnecting THEN connectToWebSocket(S) ELSE S
         IN  [S1 EXCEPT !.connectionError = "connecting"]
    ELSE LET sample == createSampleTripData(<<FormTripInput>>)
             S0 == startPlanning(S, NULL, sample)
             userMessage == [id |-> S.now, role |-> "user",
                             content |-> tripQueryText]
             S1 == dispatch(S0, [type |-> "ADD_MESSAGE",
                                 payload |-> userMessage])
             S2 == [S1 EXCEPT !.isProcessingMessage = TRUE]
         IN  IF S2.wsRef
             THEN sendMessage(S2, tripQueryText)
             ELSE LET S3 == [S2 EXCEPT !.connectionError = "not connected",
                                       !.isProcessingMessage = FALSE]
                      S4 == setRescue(S3,
                                extractTripDataFromResponse(S.state.messages),
                                sample)
                  IN  IF S.processingTimer # NULL
                      THEN [clearFallback(S4, S.processingTimer)
                               EXCEPT !.processingTimer = NULL]
                      ELSE S4

\* ------------------------------------------------------------------------
\* History of the callbacks each turn has received: the number of fragments
\* (onMessage), of onTurnComplete and of onInterrupted calls, and whether a
\* fragment came after a terminal callback.  The callbacks of one
\* handleMessage call belong to the turn the backend sent the frame for.

noCalls == [frags |-> 0, complete |-> 0, interrupted |-> 0, late |-> FALSE]

RecordCall(c, name) ==
    CASE name = "onMessage" ->
            [c EXCEPT !.frags = @ + 1,
                      !.late = @ \/ c.complete + c.interrupted > 0]
      [] name = "onTurnComplete" -> [c EXCEPT !.complete = @ + 1]
      [] name = "onInterrupted" -> [c EXCEPT !.interrupted = @ + 1]
      [] OTHER -> c

RECURSIVE RecordCalls(_, _)
RecordCalls(c, calls) ==
    IF calls = << >> THEN c
    ELSE RecordCalls(RecordCall(c, Head(calls)), Tail(calls))

Recorded(S, t) ==
    IF t \in Turns
    THEN [S EXCEPT !.cb[t] = RecordCalls(@, S.calls)]
    ELSE S

\* ------------------------------------------------------------------------
\* Initial state: the component has rendered once, no effect has run yet

ChatInitOf(sockets) ==
    /\ isConnected = FALSE
    /\ isConnecting = FALSE
    /\ connectionError = "null"
    /\ currentMessageId = NULL
    /\ isProcessingMessage = FALSE
    /\ wsRef = FALSE
    /\ handlers = [currentMessageId |-> NULL, messages |-> << >>]
    /\ isPlanningTrip = FALSE
    /\ processingTimer = NULL
    /\ page = [isPlanning |-> FALSE, started |-> 0, completed |-> 0]
    /\ fallbackTimers = {}
    /\ state = initialState
    /\ socket = NULL
    /\ reconnectAttempts = 0
    /\ reconnectTimeout = NULL
    /\ readyState = [s \in sockets |-> "NONE"]
    /\ timers = {}
    /\ now = 0
    /\ wire = << >>
    /\ server = idleServer
    /\ turns = [t \in Turns |-> [status |-> "unsent", sock |-> NULL,
                              behind |-> NULL]]
    /\ cb = [t \in Turns |-> noCalls]
    /\ nMalformed = 0

ChatInit == ChatInitOf(SocketIds)

\* The components beside the chat client, before they are used
ClassifierIdle == query = << >> /\ intent = "none"

\* An EntitySet maps each entity kind to its extracted value, NULL for a
\* kind it does not hold.
MaxValue == 2        \* distinct values of one entity kind

Kinds == {"destination", "date-range", "budget", "traveler-count"}

Values == 1 .. MaxValue

EntitySets == [Kinds -> Values \cup {NULL}]

EmptyEntitySet == [k \in Kinds |-> NULL]

StoreIdle ==
    /\ session = [created |-> FALSE, entities |-> EmptyEntitySet]
    /\ entity_set = EmptyEntitySet

\* WebSocketProvider before its effect has run
ProviderIdle ==
    /\ provider = [isConnected |-> FALSE, connectionError |-> "null",
                   webSocketRef |-> NULL]
    /\ providerSockets = << >>
    /\ providerTimers = 0

\* AgentOrchestrator after construction: agents registered, nothing called
AgentKeys == {"activity", "restaurant"}

\* An optional value is << >> (undefined) or <<v>>
NoExecution == [status |-> "none", params |-> << >>, settled |-> << >>]

NoCall == [pc |-> "none", all |-> << >>, result |-> << >>]

OrchestratorIdle ==
    /\ userInput = [destination |-> 1, budgetRange |-> 1]
    /\ executions = [a \in AgentKeys |-> NoExecution]
    /\ planTripCall = NoCall

\* ApiService: no request made
NoHealthCheck == [pc |-> "none", outcome |-> << >>, result |-> << >>]

ApiIdle == healthCheckCall = NoHealthCheck

\* TripPlanning context: nothing dispatched
ReducerIdle == dispatched = << >>

Init ==
    /\ ChatInit
    /\ ClassifierIdle
    /\ StoreIdle
    /\ ProviderIdle
    /\ OrchestratorIdle
    /\ ApiIdle
    /\ ReducerIdle

\* ------------------------------------------------------------------------
\* Actions of the client: one browser task each

\* The effects of the first render: the messages of the context are
\* initialised if empty, then the component connects.
Mount ==
    /\ ~wsRef
    /\ \A s \in DOMAIN readyState : readyState[s] = "NONE"
    /\ LET S1 == IF Len(state.messages) = 0
                 THEN dispatch(Cur, [type |-> "SET_MESSAGES",
                                     payload |-> << >>])
                 ELSE Cur
       IN  Commit(connectToWebSocket(S1))

\* Date.now() when a task starts: the last reading, or a later one
Clock == {time \in now .. now + 1 : time <= MaxClock}

UserMessages == {i \in 1 .. Len(state.messages) :
                    state.messages[i].role = "user"}

\* The user submits the form with a non-empty text
HandleSubmit ==
    \E time \in Clock :
        /\ wsRef
        /\ Cardinality(UserMessages) < MaxSubmits
        /\ Commit(handleSubmit([Cur EXCEPT !.now = time],
                               UserText(Cardinality(UserMessages) + 1)))

\* The handshake of WebSocket s succeeds: open event
SocketOpen ==
    \E s \in DOMAIN readyState :
        /\ readyState[s] = "CONNECTING"
        /\ Commit(handleOpen([Cur EXCEPT !.readyState[s] = "OPEN",
                                         !.server.conn = s]))

\* The handshake of WebSocket s fails: error event, then close event
SocketConnectFails ==
    \E s \in DOMAIN readyState :
        /\ readyState[s] = "CONNECTING"
        /\ Commit(handleClose(
                    handleError([Cur EXCEPT !.readyState[s] = "CLOSED"]),
                    CloseEvent(s, 1006, TRUE)))

\* message event: the oldest frame on the wire reaches handleMessage
DeliverMessage ==
    \E time \in Clock :
        /\ wire # << >>
        /\ Head(wire).kind = "message"
        /\ readyState[Head(wire).sock] = "OPEN"
        /\ LET event == Head(wire)
               S1 == handleMessage([Cur EXCEPT !.wire = Tail(wire),
                                               !.now = time], event)
           IN  Commit(Recorded(S1, event.turn))

\* close event (after an error event when the connection failed)
DeliverClose ==
    /\ wire # << >>
    /\ Head(wire).kind = "close"
    /\ LET event == Head(wire)
           S0 == [Cur EXCEPT !.wire = Tail(wire),
                             !.readyState[event.sock] = "CLOSED"]
           S1 == IF event.withError THEN handleError(S0) ELSE S0
       IN  Commit(handleClose(S1, event))

\* A reconnect timer set by attemptReconnect expires
ReconnectTimerFires ==
    \E tm \in timers :
        /\ FreeSockets(Cur) # {}
        /\ Commit(connect([Cur EXCEPT !.timers = @ \ {tm}]))

\* The user submits the form with a text that asks for a trip plan
HandleSubmitTrip ==
    \E time \in Clock :
        /\ wsRef
        /\ Cardinality(UserMessages) < MaxSubmits
        /\ Commit(handleSubmit([Cur EXCEPT !.now = time],
                               TripQueryText(Cardinality(UserMessages) + 1)))

\* The user submits the trip form
HandleTripInputSubmit ==
    \E time \in Clock :
        /\ wsRef
        /\ Cardinality(UserMessages) < MaxSubmits
        /\ Commit(handleTripInputSubmit([Cur EXCEPT !.now = time],
                      TripQueryText(Cardinality(UserMessages) + 1)))

\* A timer set by a submit expires
ProcessingTimerFires ==
    \E tm \in fallbackTimers :
        Commit(fallbackExpired(Cur, tm))

\* The component is unmounted: the cleanups of its effects.  The
\* handlers of the service stay attached to its WebSocket; what they set of
\* the component's state after this is shown nowhere.
Unmount ==
    \E code \in ClientCloseCodes :
        /\ wsRef
        /\ LET S1 == disconnectWebSocket(Cur, code)
           IN  Commit(IF processingTimer # NULL
                      THEN clearFallback(S1, processingTimer)
                      ELSE S1)

\* ------------------------------------------------------------------------
\* Actions of the backend and of the network

ServerEmitFragment ==
    /\ server.cur # NULL
    /\ server.sent < MaxFrags
    /\ Len(wire) < MaxWire
    /\ Commit([Cur EXCEPT
           !.server.sent = @ + 1,
           !.wire = Append(@, MessageEvent(server.conn, server.cur,
                      Frame(FragmentText(server.cur, server.sent + 1),
                            FALSE, FALSE)))])

TerminalFrame(t, kind) ==
    CASE kind = "complete" -> Frame(EmptyText, TRUE, FALSE)
      [] kind = "failed" -> Frame(ErrorText(t), TRUE, FALSE)
      [] kind = "interrupted" -> Frame(EmptyText, FALSE, TRUE)

\* The turn that streams ends: success, agent failure or timeout (a
\* terminal frame with an error text), or cancellation; the queued message,
\* if any, starts its turn.
ServerEndTurn ==
    \E kind \in {"complete", "failed", "interrupted"} :
        /\ server.cur # NULL
        /\ Len(wire) < MaxWire
        /\ LET t == server.cur
               q == server.queued
               S1 == [Cur EXCEPT
                        !.turns[t].status = kind,
                        !.wire = Append(@, MessageEvent(server.conn, t,
                                             TerminalFrame(t, kind))),
                        !.server = [conn |-> server.conn, cur |-> q,
                                    sent |-> 0, queued |-> NULL]]
           IN  Commit(IF q = NULL THEN S1
                      ELSE [S1 EXCEPT !.turns[q].status = "streaming"])

\* The backend closes the connection between two turns (on purpose, or
\* after an error)
ServerClose ==
    \E code \in {NormalClosure, 1011} :
        /\ server.conn # NULL
        /\ server.cur = NULL
        /\ Commit(ServerDisconnect(
               [Cur EXCEPT !.wire = Append(@, CloseEvent(server.conn, code,
                                                         FALSE))]))

\* The transport is lost: the frames in flight are lost with it
NetworkDrop ==
    \E withError \in BOOLEAN :
        /\ server.conn # NULL
        /\ Commit(ServerDisconnect(
               [Cur EXCEPT !.wire = <<CloseEvent(server.conn, 1006,
                                                 withError)>>]))

\* A frame that is not JSON reaches the client
MalformedFrame ==
    /\ server.conn # NULL
    /\ nMalformed < MaxMalformed
    /\ Len(wire) < MaxWire
    /\ Commit([Cur EXCEPT
           !.nMalformed = @ + 1,
           !.wire = Append(@, MessageEvent(server.conn, 0,
                      [valid |-> FALSE, message |-> EmptyText,
                       turn_complete |-> FALSE, interrupted |-> FALSE]))])

Next ==
    \/ Mount
    \/ HandleSubmit
    \/ SocketOpen
    \/ SocketConnectFails
    \/ DeliverMessage
    \/ DeliverClose
    \/ ReconnectTimerFires
    \/ ServerEmitFragment
    \/ ServerEndTurn
    \/ ServerClose
    \/ NetworkDrop
    \/ MalformedFrame

Spec == Init /\ [][Next]_vars

\* ------------------------------------------------------------------------
\* Intent Classifier of the backend: classify(text) -> Intent
\* (specification 4.2; "Intent Classification Algorithm" of the
\* orchestration document).  The classifier itself is not part of the
\* TypeScript sources.  A text is the sequence of the words it is made of;
\* a keyword is found in a text if it is one of its words, a phrase if its
\* words follow each other in the text.
\* The words are Thai words in transcription: ran (shop), aroi (tasty),
\* ahan (food), thiao (to visit), nasonchai (interesting), doenthang (to
\* travel), nan (the province of Nan).

MaxWords == 4        \* words of a classified text

Intents == {"restaurant", "activity", "general-travel"}

Vocabulary ==
    {"ran", "aroi", "ahan", "thiao", "nasonchai", "doenthang", "nan"}

Queries == UNION {[1 .. n -> Vocabulary] : n \in 0 .. MaxWords}

\* Step 1: the high-priority compound patterns, in the order they are tried
CompoundPatterns ==
    << [words |-> {"ran", "aroi"}, intent |-> "restaurant"],
       [words |-> {"thiao", "nasonchai"}, intent |-> "activity"] >>

\* Step 2: the keyword list of each intent, <<keyword, weight>>
KeywordList(X) ==
    CASE X = "restaurant" -> {<<"ran", 1>>, <<"aroi", 1>>, <<"ahan", 2>>}
      [] X = "activity" -> {<<"thiao", 2>>, <<"nasonchai", 1>>}
      [] X = "general-travel" -> {<<"doenthang", 1>>}

\* Step 3: the phrases that add a fixed bonus to one intent, <<phrase, bonus>>
PhraseBoosts(X) ==
    CASE X = "restaurant" -> {<< <<"ran", "ahan">>, 2 >>}
      [] X = "activity" -> {<< <<"thiao", "nan">>, 1 >>}
      [] X = "general-travel" -> {}

\* Step 4: the threshold of each intent
Threshold(X) ==
    CASE X = "restaurant" -> 2
      [] X = "activity" -> 2
      [] X = "general-travel" -> 0

Contains(t, w) == \E i \in 1 .. Len(t) : t[i] = w

ContainsPhrase(t, p) ==
    \E i \in 0 .. Len(t) - Len(p) : \A j \in 1 .. Len(p) : t[i + j] = p[j]

Matches(t, pattern) == \A w \in pattern.words : Contains(t, w)

\* The sum of the second components of a set of pairs
RECURSIVE SumOf(_)
SumOf(pairs) ==
    IF pairs = {} THEN 0
    ELSE LET p == CHOOSE q \in pairs : TRUE
         IN  p[2] + SumOf(pairs \ {p})

KeywordScore(t, X) == SumOf({k \in KeywordList(X) : Contains(t, k[1])})

PhraseBoost(t, X) == SumOf({b \in PhraseBoosts(X) : ContainsPhrase(t, b[1])})

Score(t, X) == KeywordScore(t, X) + PhraseBoost(t, X)

CompoundMatches(t) ==
    {i \in 1 .. Len(CompoundPatterns) : Matches(t, CompoundPatterns[i])}

AboveThreshold(t) == {X \in Intents : Score(t, X) > Threshold(X)}

BestIntents(t) ==
    {X \in AboveThreshold(t) :
        \A Y \in AboveThreshold(t) : Score(t, Y) <= Score(t, X)}

\* Variant: a tie goes to the first of the tied intents, not to the default
classifyTieToFirst(t) ==
    LET found == CompoundMatches(t)
        best == BestIntents(t)
    IN  IF found # {}
        THEN CompoundPatterns[CHOOSE i \in found : \A j \in found : i <= j]
                 .intent
        ELSE IF best = {} THEN "general-travel"
        ELSE IF "restaurant" \in best THEN "restaurant"
        ELSE IF "activity" \in best THEN "activity"
        ELSE "general-travel"

\* Variant: the scores are compared first, the compound patterns decide
\* only when the scores do not
classifyScoresFirst(t) ==
    LET found == CompoundMatches(t)
        best == BestIntents(t)
    IN  IF Cardinality(best) = 1
        THEN CHOOSE X \in best : TRUE
        ELSE IF found # {}
        THEN CompoundPatterns[CHOOSE i \in found : \A j \in found : i <= j]
                 .intent
        ELSE "general-travel"

classify(t) ==
    LET found == CompoundMatches(t)
        best == BestIntents(t)
    IN  IF found # {}
        THEN CompoundPatterns[CHOOSE i \in found : \A j \in found : i <= j]
                 .intent
        ELSE IF Cardinality(best) = 1
        THEN CHOOSE X \in best : TRUE
        ELSE "general-travel"

InitClassify ==
    /\ ChatInit
    /\ StoreIdle
    /\ ProviderIdle
    /\ OrchestratorIdle
    /\ ApiIdle
    /\ ReducerIdle
    /\ query \in Queries
    /\ intent = "none"

\* The orchestrator classifies the text of the user message
Classify ==
    /\ intent = "none"
    /\ intent' = classify(query)
    /\ UNCHANGED <<chatVars, storeVars, providerVars, orchestratorVars,
                   apiVars, reducerVars, query>>

NextClassify == Classify

SpecClassify == InitClassify /\ [][NextClassify]_vars

\* ------------------------------------------------------------------------
\* Session State Store of the backend (specification 3 and 4.3): the
\* EntitySet of one session and merge_entities.  The store is not part of
\* the TypeScript sources.

\* Variant: a kind the session already holds keeps its value (first wins)
merge_entitiesFirstWins(old, new) ==
    [k \in Kinds |-> IF old[k] # NULL THEN old[k] ELSE new[k]]

merge_entities(old, new) ==
    [k \in Kinds |-> IF new[k] # NULL THEN new[k] ELSE old[k]]

InitSessionStore == Init

\* create(session_id)
CreateSession ==
    /\ ~session.created
    /\ session' = [created |-> TRUE, entities |-> EmptyEntitySet]
    /\ UNCHANGED <<chatVars, classifierVars, providerVars,
                   orchestratorVars, apiVars, reducerVars,
                   entity_set>>

\* merge_entities(session_id, entity_set) on the created session, with the
\* EntitySet extracted from a user message
MergeEntities ==
    \E extracted \in EntitySets :
        /\ session.created
        /\ session' = [session EXCEPT
               !.entities = merge_entities(@, extracted)]
        /\ entity_set' = extracted
        /\ UNCHANGED <<chatVars, classifierVars, providerVars,
                       orchestratorVars, apiVars, reducerVars>>

NextSessionStore == CreateSession \/ MergeEntities

SpecSessionStore == InitSessionStore /\ [][NextSessionStore]_vars

\* ------------------------------------------------------------------------
\* WebSocketProvider (components/WebSocketProvider, mounted by the root
\* layout): a second client of the backend's WebSocket endpoint.  Its
\* effect calls connectWebSocket, and every close event sets a timer that
\* calls connectWebSocket again.  providerSockets[i] is the i-th WebSocket
\* the provider has created, with the client id of its URL.

MaxProviderSockets == 4   \* WebSocket objects created by the provider
MaxClientIds == 2         \* distinct results of Math.random()

ClientIds == 1 .. MaxClientIds

providerOthers ==
    <<chatVars, classifierVars, storeVars, orchestratorVars, apiVars,
      reducerVars>>

\* connectWebSocket, with the client id that Math.random() produced
connectWebSocket(clientId) ==
    /\ providerSockets' = Append(providerSockets,
           [clientId |-> clientId, readyState |-> "CONNECTING"])
    /\ provider' = [provider EXCEPT
           !.webSocketRef = Len(providerSockets) + 1]

InitProvider == Init

\* The effect of the provider runs
ProviderMount ==
    \E clientId \in ClientIds :
        /\ providerSockets = << >>
        /\ connectWebSocket(clientId)
        /\ UNCHANGED <<providerTimers, providerOthers>>

\* ws.onopen
ProviderSocketOpen ==
    \E i \in 1 .. Len(providerSockets) :
        /\ providerSockets[i].readyState = "CONNECTING"
        /\ providerSockets' = [providerSockets EXCEPT ![i].readyState = "OPEN"]
        /\ provider' = [provider EXCEPT !.isConnected = TRUE,
                                        !.connectionError = "null"]
        /\ UNCHANGED <<providerTimers, providerOthers>>

\* ws.onclose, after ws.onerror when the connection failed
ProviderSocketClose ==
    \E i \in 1 .. Len(providerSockets), withError \in BOOLEAN :
        /\ providerSockets[i].readyState \in {"CONNECTING", "OPEN"}
        /\ providerSockets[i].readyState = "CONNECTING" => withError
        /\ providerSockets' =
               [providerSockets EXCEPT ![i].readyState = "CLOSED"]
        /\ provider' = [provider EXCEPT
               !.connectionError = IF withError THEN "error" ELSE @,
               !.isConnected = FALSE]
        /\ providerTimers' = providerTimers + 1
        /\ UNCHANGED providerOthers

\* The timer set by ws.onclose expires: connectWebSocket
ProviderTimerFires ==
    \E clientId \in ClientIds :
        /\ providerTimers > 0
        /\ Len(providerSockets) < MaxProviderSockets
        /\ connectWebSocket(clientId)
        /\ providerTimers' = providerTimers - 1
        /\ UNCHANGED providerOthers

\* sendMessage of the context
ProviderSendMessage ==
    /\ provider' =
           IF /\ provider.webSocketRef # NULL
              /\ providerSockets[provider.webSocketRef].readyState = "OPEN"
           THEN provider
           ELSE [provider EXCEPT !.connectionError = "lost"]
    /\ UNCHANGED <<providerSockets, providerTimers, providerOthers>>

NextProvider ==
    \/ ProviderMount
    \/ ProviderSocketOpen
    \/ ProviderSocketClose
    \/ ProviderTimerFires
    \/ ProviderSendMessage

SpecProvider == InitProvider /\ [][NextProvider]_vars

\* ------------------------------------------------------------------------
\* AgentOrchestrator.planTrip (services/AgentOrchestrator.ts).  planTrip
\* reads destination and budgetRange of its TripInput.  An agent's execute
\* returns a promise of an AgentResponse (success, data?, error?); the
\* promise is fulfilled with a response or rejected with a reason.
\* executions[a] is the execute call of agent a; planTripCall is the call of
\* planTrip: where it stands (pc), the outcome of its Promise.all once that
\* is settled (all), the value it returned (result).

MaxDestinations == 2   \* distinct destinations of a TripInput
MaxBudgets == 2        \* distinct budget ranges of a TripInput

TripInputs ==
    [destination : 1 .. MaxDestinations, budgetRange : 1 .. MaxBudgets]

\* What an execute call can settle with: the AgentResponses (with a
\* non-empty list, an empty list or no data), and the reasons of a
\* rejection (an Error with its message, or another value)
AgentResponses ==
    { [success |-> TRUE, data |-> << <<"item">> >>, error |-> << >>],
      [success |-> TRUE, data |-> << << >> >>, error |-> << >>],
      [success |-> TRUE, data |-> << >>, error |-> << >>],
      [success |-> FALSE, data |-> << >>, error |-> <<"agent failed">>] }

Reasons ==
    { [isError |-> TRUE, message |-> "request failed"],
      [isError |-> FALSE, message |-> "" ] }

Settlements ==
    {[status |-> "fulfilled", value |-> r] : r \in AgentResponses}
        \cup {[status |-> "rejected", value |-> r] : r \in Reasons}

orchestratorOthers ==
    <<chatVars, classifierVars, storeVars, providerVars, apiVars,
      reducerVars>>

\* activityResult?.data || []
DataOrEmpty(response) ==
    IF response.data = << >> THEN << >> ELSE response.data[1]

\* The outcome of Promise.all over the execute promises: rejected with the
\* reason of the first promise that is rejected, fulfilled once all are
PromiseAll(all, execs, a, settlement) ==
    IF all # << >> THEN all
    ELSE IF settlement.status = "rejected"
    THEN <<[status |-> "rejected", reason |-> settlement.value]>>
    ELSE IF \A b \in AgentKeys \ {a} : execs[b].status = "fulfilled"
    THEN <<[status |-> "fulfilled", reason |-> << >>]>>
    ELSE << >>

\* Variant: no catch block, a rejected Promise.all rejects planTrip
planTripResumeNoCatch(call, execs) ==
    IF call.all[1].status = "fulfilled"
    THEN [call EXCEPT
            !.pc = "returned",
            !.result = <<[success |-> TRUE,
                          data |-> <<[activities |->
                                        DataOrEmpty(execs["activity"]
                                                        .settled[1].value),
                                      restaurants |->
                                        DataOrEmpty(execs["restaurant"]
                                                        .settled[1].value)]>>,
                          error |-> << >>]>>]
    ELSE [call EXCEPT !.pc = "rejected"]

\* planTrip after its await: the return of the try block, or of the catch
planTripResume(call, execs) ==
    IF call.all[1].status = "fulfilled"
    THEN [call EXCEPT
            !.pc = "returned",
            !.result = <<[success |-> TRUE,
                          data |-> <<[activities |->
                                        DataOrEmpty(execs["activity"]
                                                        .settled[1].value),
                                      restaurants |->
                                        DataOrEmpty(execs["restaurant"]
                                                        .settled[1].value)]>>,
                          error |-> << >>]>>]
    ELSE LET error == call.all[1].reason
         IN  [call EXCEPT
                !.pc = "returned",
                !.result = <<[success |-> FALSE, data |-> << >>,
                              error |-> <<IF error.isError THEN error.message
                                          ELSE "Unknown error occurred">>]>>]

InitPlanTrip ==
    /\ ChatInit
    /\ ClassifierIdle
    /\ StoreIdle
    /\ ProviderIdle
    /\ ApiIdle
    /\ ReducerIdle
    /\ userInput \in TripInputs
    /\ executions = [a \in AgentKeys |-> NoExecution]
    /\ planTripCall = NoCall

\* planTrip(userInput) up to its await: both execute calls are made
PlanTrip ==
    /\ planTripCall.pc = "none"
    /\ executions' = [a \in AgentKeys |->
           [status |-> "pending",
            params |-> <<[destination |-> userInput.destination,
                          budget |-> userInput.budgetRange]>>,
            settled |-> << >>]]
    /\ planTripCall' = [planTripCall EXCEPT !.pc = "awaiting"]
    /\ UNCHANGED <<userInput, orchestratorOthers>>

\* The promise of an execute call is settled
ExecutionSettles ==
    \E a \in AgentKeys, settlement \in Settlements :
        /\ executions[a].status = "pending"
        /\ executions' = [executions EXCEPT
               ![a].status = settlement.status,
               ![a].settled = <<settlement>>]
        /\ planTripCall' = [planTripCall EXCEPT
               !.all = PromiseAll(@, executions, a, settlement)]
        /\ UNCHANGED <<userInput, orchestratorOthers>>

\* The await of planTrip resumes with the outcome of Promise.all
PlanTripResumes ==
    /\ planTripCall.pc = "awaiting"
    /\ planTripCall.all # << >>
    /\ planTripCall' = planTripResume(planTripCall, executions)
    /\ UNCHANGED <<userInput, executions, orchestratorOthers>>

NextPlanTrip == PlanTrip \/ ExecutionSettles \/ PlanTripResumes

SpecPlanTrip == InitPlanTrip /\ [][NextPlanTrip]_vars

\* ------------------------------------------------------------------------
\* ApiService.healthCheck (services/ApiService): a GET request to
\* /api/health.  axios fulfils the request with the response when the HTTP
\* status is 2xx and rejects it otherwise (no answer, or an answer with
\* another HTTP status).  data is the parsed body: << >> when there is none,
\* else <<object>>, and the status field of the object is optional too.

HealthOutcomes ==
    { [settled |-> "fulfilled", data |-> <<[status |-> <<"healthy">>]>>],
      [settled |-> "fulfilled", data |-> <<[status |-> <<"unhealthy">>]>>],
      [settled |-> "fulfilled", data |-> <<[status |-> << >>]>>],
      [settled |-> "fulfilled", data |-> << >>],
      [settled |-> "rejected", data |-> <<[status |-> <<"healthy">>]>>],
      [settled |-> "rejected", data |-> << >>] }

\* Variant: every answer of the endpoint counts as healthy
healthCheckAnyAnswer(outcome) ==
    IF outcome.settled = "rejected" THEN <<"returned", FALSE>>
    ELSE <<"returned", TRUE>>

\* healthCheck after its await: <<how the call ends, the value returned>>.
\* Reading .status of a missing body throws inside the try block.
healthCheck(outcome) ==
    IF outcome.settled = "rejected" THEN <<"returned", FALSE>>
    ELSE IF outcome.data = << >> THEN <<"returned", FALSE>>
    ELSE <<"returned", outcome.data[1].status = <<"healthy">> >>

apiOthers ==
    <<chatVars, classifierVars, storeVars, providerVars, orchestratorVars,
      reducerVars>>

InitHealthCheck == Init

\* healthCheck() up to its await: the request is sent
HealthCheck ==
    /\ healthCheckCall.pc # "awaiting"
    /\ healthCheckCall' = [NoHealthCheck EXCEPT !.pc = "awaiting"]
    /\ UNCHANGED apiOthers

\* The request is settled and healthCheck returns
HealthCheckSettles ==
    \E outcome \in HealthOutcomes :
        /\ healthCheckCall.pc = "awaiting"
        /\ healthCheckCall' = [pc |-> healthCheck(outcome)[1],
                               outcome |-> <<outcome>>,
                               result |-> <<healthCheck(outcome)[2]>>]
        /\ UNCHANGED apiOthers

\* The health probe beside the life of the chat client's connection
NextHealthCheck ==
    \/ HealthCheck
    \/ HealthCheckSettles
    \/ Mount
    \/ SocketOpen
    \/ SocketConnectFails
    \/ DeliverClose
    \/ ReconnectTimerFires
    \/ ServerClose
    \/ NetworkDrop

SpecHealthCheck == InitHealthCheck /\ [][NextHealthCheck]_vars

\* ------------------------------------------------------------------------
\* Trip planning in the chat: the submits that start a planning, the answers
\* of the backend, the loss of the connection, and the timers.

InitPlanning == Init

NextPlanning ==
    \/ Mount
    \/ HandleSubmitTrip
    \/ HandleTripInputSubmit
    \/ ProcessingTimerFires
    \/ SocketOpen
    \/ DeliverMessage
    \/ DeliverClose
    \/ ServerEmitFragment
    \/ ServerEndTurn
    \/ NetworkDrop

SpecPlanning == InitPlanning /\ [][NextPlanning]_vars

\* Trip planning over a connection that stays up: what the backend sends,
\* and when, is free.  A timer of the browser that is pending expires in the
\* end (setTimeout), so ProcessingTimerFires is weakly fair; nothing is
\* assumed of the user, the network and the backend.
NextPlanningLive ==
    \/ Mount
    \/ HandleSubmitTrip
    \/ HandleTripInputSubmit
    \/ ProcessingTimerFires
    \/ SocketOpen
    \/ DeliverMessage
    \/ ServerEmitFragment
    \/ ServerEndTurn

SpecPlanningLive ==
    InitPlanning /\ [][NextPlanningLive]_vars /\ WF_vars(ProcessingTimerFires)

\* ------------------------------------------------------------------------
\* The TripPlanning context on its own: tripPlanningReducer under every
\* action, from the initial state.  A TripData and an error text are
\* numbers here, a message is a record with an id, a role and a text.

MaxMessages == 2     \* messages of the context
MaxTripData == 2     \* distinct TripData values

ReducerMessages ==
    [id : 0 .. 1, role : {"user", "assistant"}, content : {UserText(1)}]

MessageLists == UNION {[1 .. n -> ReducerMessages] : n \in 0 .. MaxMessages}

\* The actions of TripPlanningAction, and one of a type the reducer does
\* not know
ReducerActions ==
    [type : {"SET_TRIP_DATA"}, payload : 1 .. MaxTripData]
        \cup [type : {"SET_LOADING"}, payload : BOOLEAN]
        \cup [type : {"SET_ERROR"}, payload : {NULL, 1}]
        \cup [type : {"ADD_MESSAGE"}, payload : ReducerMessages]
        \cup [type : {"SET_MESSAGES"}, payload : MessageLists]
        \cup [type : {"RESET"}, payload : {NULL}]

InitReducer == Init

\* dispatch(action) of the context
Dispatch ==
    \E a \in ReducerActions :
        /\ a.type = "ADD_MESSAGE" => Len(state.messages) < MaxMessages
        /\ state' = tripPlanningReducer(state, a)
        /\ dispatched' = <<a>>
        /\ UNCHANGED <<isConnected, isConnecting, connectionError,
                       currentMessageId, isProcessingMessage, wsRef,
                       handlers, isPlanningTrip, processingTimer, page,
                       socket, reconnectAttempts, reconnectTimeout,
                       readyState, timers, fallbackTimers, now, wire, server,
                       turns, cb, nMalformed>>
        /\ UNCHANGED <<classifierVars, storeVars, providerVars,
                       orchestratorVars, apiVars>>

NextReducer == Dispatch

SpecReducer == InitReducer /\ [][NextReducer]_vars

\* ------------------------------------------------------------------------
\* The connection of the chat client from mount to unmount, with enough
\* WebSocket objects for the service to use up its reconnect attempts.  The
\* backend accepts messages and answers none in the time followed.

InitConnection ==
    /\ ChatInitOf(1 .. MaxConnectionSockets)
    /\ ClassifierIdle
    /\ StoreIdle
    /\ ProviderIdle
    /\ OrchestratorIdle
    /\ ApiIdle
    /\ ReducerIdle

NextConnection ==
    \/ Mount
    \/ Unmount
    \/ HandleSubmit
    \/ SocketOpen
    \/ SocketConnectFails
    \/ DeliverClose
    \/ ReconnectTimerFires
    \/ ServerClose
    \/ NetworkDrop

SpecConnection == InitConnection /\ [][NextConnection]_vars

\* ========================================================================
\* Properties

Terminals(t) == cb[t].complete + cb[t].interrupted
Sent(t) == turns[t].sock # NULL
Started(t) ==
    turns[t].status \in {"streaming", "complete", "failed", "interrupted"}
IsFragment(token) == token[1] >= 1 /\ token[2] >= 1

\* The assistant messages that hold a fragment of the answer to message t,
\* with their positions
AnswerOf(t, msgs) ==
    {<<i, msgs[i]>> : i \in {j \in 1 .. Len(msgs) :
        /\ msgs[j].role = "assistant"
        /\ \E a \in 1 .. Len(msgs[j].content) :
               msgs[j].content[a][1] = t /\ IsFragment(msgs[j].content[a])}}

\* This step is the message event of a frame that carries text
FragmentArrives ==
    /\ wire # << >>
    /\ Head(wire).kind = "message"
    /\ Head(wire).data.valid
    /\ Truthy(Head(wire).data.message)
    /\ readyState[Head(wire).sock] = "OPEN"
    /\ wire' = Tail(wire)

\* This step is the close event of a connection that was established
CloseArrives ==
    /\ wire # << >>
    /\ Head(wire).kind = "close"
    /\ readyState[Head(wire).sock] = "OPEN"
    /\ readyState'[Head(wire).sock] = "CLOSED"

\* C1: every user message that was put on an open connection gets exactly
\* one terminal signal (onTurnComplete or onInterrupted): never two, and,
\* since no frame arrives on a WebSocket after its close event, the one
\* signal has been delivered by the time the WebSocket that carried the
\* message is closed -- otherwise the turn stays open forever.
C1_EveryTurnEndsOnce ==
    \A t \in Turns :
        /\ Terminals(t) <= 1
        /\ Sent(t) /\ readyState[turns[t].sock] = "CLOSED" => Terminals(t) = 1

\* C2: at most one turn of the session is in STREAMING at any time, at the
\* backend (between the start of a turn and its terminal frame) and as the
\* client sees it on its open connection (between the first fragment of a
\* turn and its terminal signal), whatever the user submits meanwhile.
ServerStreaming == {t \in Turns : turns[t].status = "streaming"}

ClientStreaming ==
    {t \in Turns : /\ Sent(t)
                   /\ readyState[turns[t].sock] = "OPEN"
                   /\ cb[t].frags > 0
                   /\ Terminals(t) = 0}

C2_OneTurnStreaming ==
    /\ Cardinality(ServerStreaming) <= 1
    /\ Cardinality(ClientStreaming) <= 1

C2_Witness ==
    /\ turns[1].status = "streaming"
    /\ cb[1].frags > 0
    /\ turns[2].status = "queued"

\* C3: a message that reaches the session while a turn is streaming waits:
\* its turn starts only after the streaming turn has ended, and the client
\* gets no fragment and no terminal signal of it before the terminal signal
\* of the turn it waited for.
C3_SecondTurnWaits ==
    \A t \in Turns :
        turns[t].behind # NULL =>
            /\ Started(t) =>
                 turns[turns[t].behind].status
                     \in {"complete", "failed", "interrupted"}
            /\ cb[t].frags + Terminals(t) > 0 =>
                 Terminals(turns[t].behind) >= 1

C3_Witness ==
    /\ turns[2].behind = 1
    /\ cb[2].frags > 0

\* C4: the message list shows the answers in the order of the user
\* messages: a fragment of the answer to an earlier message is never placed
\* after a fragment of the answer to a later one, and no message holds text
\* of two turns.
C4_TurnsInOrder ==
    LET msgs == state.messages IN
    \A i, j \in 1 .. Len(msgs) :
        \A a \in 1 .. Len(msgs[i].content), b \in 1 .. Len(msgs[j].content) :
            LET x == msgs[i].content[a]
                y == msgs[j].content[b]
            IN  /\ (i < j \/ (i = j /\ a < b)) /\ IsFragment(x) /\ IsFragment(y)
                      => x[1] <= y[1]
                /\ i = j /\ x[1] # 0 /\ y[1] # 0 => x[1] = y[1]

C4_Witness ==
    \E i, j \in 1 .. Len(state.messages) :
        /\ i < j
        /\ state.messages[i].content = FragmentText(1, 1)
        /\ state.messages[j].content = FragmentText(2, 1)

C6_InterruptedTurnIsOver ==
    [][\A t \in Turns :
          /\ cb'[t].interrupted > cb[t].interrupted =>
                currentMessageId' = NULL /\ server.cur # t
          /\ cb[t].interrupted >= 1 =>
                /\ cb[t].complete = 0
                /\ turns[t].status # "streaming"
                /\ cb'[t] = cb[t]
                /\ AnswerOf(t, state'.messages) = AnswerOf(t, state.messages)
                /\ FragmentArrives =>
                     /\ Len(state'.messages) = Len(state.messages) + 1
                     /\ SubSeq(state'.messages, 1, Len(state.messages))
                            = state.messages]_vars

C6_Witness ==
    /\ cb[1].interrupted = 1
    /\ cb[1].frags >= 1
    /\ cb[2].frags >= 1

\* C7: the close event of an established connection leaves the conversation
\* as it is: the context (the messages, their order and text), the current
\* message and the callbacks received by every turn are unchanged, so the
\* close adds no message and completes no turn.
C7_CloseKeepsConversation ==
    [][CloseArrives =>
          /\ state' = state
          /\ currentMessageId' = currentMessageId
          /\ cb' = cb
          /\ handlers' = handlers
          /\ wsRef' = wsRef]_vars

C7_Witness ==
    \E t \in Turns :
        /\ turns[t].status = "interrupted"
        /\ readyState[turns[t].sock] = "CLOSED"
        /\ cb[t].frags >= 1
        /\ Terminals(t) = 0
        /\ currentMessageId # NULL
        /\ ~isConnected
        /\ Len(state.messages) >= 2

\* C8: when an established connection is closed without the client having
\* asked for it, a reconnect is under way afterwards (a timer that will
\* call connect is pending).
C8_ReconnectsAfterLoss ==
    [][CloseArrives => timers' # {}]_vars

\* C9: after a frame that could not be parsed was reported through onError
\* and while the WebSocket is still open, no submit is turned away with
\* "Connecting to the assistant. Please try again in a moment."
C9_SubmitAcceptedAfterProtocolError ==
    [][/\ nMalformed > 0
       /\ connectionError = "failed"
       /\ socket # NULL
       /\ readyState[socket] = "OPEN"
       => connectionError' # "connecting"]_vars

Concatenation(t, k) == [i \in 1 .. k |-> <<t, i>>]

\* The turns that got k >= 1 fragments and then their terminal frame
\* (turn_complete or interrupted, without text)
Delivered ==
    {t \in Turns : /\ turns[t].status \in {"complete", "interrupted"}
                   /\ cb[t].frags >= 1
                   /\ Terminals(t) = 1}

\* C20: the fragments of a turn are accumulated into one assistant message.
\* A turn that got k >= 1 fragments and then its terminal frame has exactly
\* one assistant message in the list, whose text is the concatenation of
\* the k fragments in arrival order; the first fragment of a turn arrives
\* with currentMessageId null and creates the message, every fragment
\* leaves currentMessageId non-null and every terminal frame leaves it
\* null.
C20_FragmentsAccumulate ==
    /\ [](\A t \in Delivered :
             /\ Cardinality(AnswerOf(t, state.messages)) = 1
             /\ \A m \in AnswerOf(t, state.messages) :
                    m[2].content = Concatenation(t, cb[t].frags))
    /\ [][\A t \in Turns :
             /\ cb[t].frags = 0 /\ cb'[t].frags = 1 =>
                   /\ currentMessageId = NULL
                   /\ Len(state'.messages) = Len(state.messages) + 1
             /\ cb'[t].frags > cb[t].frags /\ Terminals(t)' = 0 =>
                   currentMessageId' # NULL
             /\ Terminals(t)' > Terminals(t) =>
                   currentMessageId' = NULL]_vars

\* ------------------------------------------------------------------------
\* Connection

\* The WebSocket objects of the session that are connecting or open
LiveSockets ==
    {s \in DOMAIN readyState : readyState[s] \in {"CONNECTING", "OPEN"}}

\* C14: the session has one connection.  At most one WebSocket of the
\* service is connecting or open at any time, and a step that creates a
\* WebSocket (connect) is taken only when the service has no WebSocket or
\* its previous WebSocket has closed.
C14_OneConnectionPerSession ==
    /\ [](Cardinality(LiveSockets) <= 1)
    /\ [][\A s \in SocketIds :
             readyState[s] = "NONE" /\ readyState'[s] # "NONE" =>
                 /\ socket' = s
                 /\ socket = NULL \/ readyState[socket] = "CLOSED"]_vars

C14_Witness ==
    /\ readyState[1] = "CLOSED"
    /\ readyState[2] = "OPEN"
    /\ socket = 2
    /\ isConnected

\* This step is an open event: the handshake of a WebSocket succeeded
OpenArrives ==
    \E s \in DOMAIN readyState :
        readyState[s] = "CONNECTING" /\ readyState'[s] = "OPEN"

\* This step calls onClose or onError: a close event, or the message event
\* of a frame that cannot be parsed
CloseOrErrorArrives ==
    \/ \E s \in DOMAIN readyState :
           readyState[s] # "CLOSED" /\ readyState'[s] = "CLOSED"
    \/ /\ wire # << >>
       /\ Head(wire).kind = "message"
       /\ ~Head(wire).data.valid
       /\ readyState[Head(wire).sock] = "OPEN"
       /\ wire' = Tail(wire)

C15_ReconnectKeepsSessionId ==
    \A i \in 1 .. Len(providerSockets) :
        providerSockets[i].clientId = providerSockets[1].clientId

\* ------------------------------------------------------------------------
\* AgentOrchestrator

Pending == {a \in AgentKeys : executions[a].status = "pending"}

Rejected == {a \in AgentKeys : executions[a].status = "rejected"}

\* C16: for one request no two agent invocations are in flight at the same
\* time (an agent is started only when no other invocation is pending), and
\* the response to the request is produced by one agent.
C16_OneAgentAtATime ==
    /\ Cardinality(Pending) <= 1
    /\ planTripCall.pc = "returned" /\ planTripCall.result[1].success =>
           \E a \in AgentKeys :
               \A b \in AgentKeys \ {a} : executions[b].status = "none"

\* C17: planTrip never rejects and never stays open.  Once Promise.all is
\* settled (an execution was rejected, or all are fulfilled) planTrip has
\* returned or its await can resume; what it returns is success = true with
\* data and no error, or success = false with an error message and no data;
\* and if an execution was rejected it is the latter.
C17_PlanTripAlwaysResolves ==
    /\ planTripCall.pc \in {"none", "awaiting", "returned"}
    /\ Rejected # {} \/ (\A a \in AgentKeys :
                            executions[a].status = "fulfilled")
          => planTripCall.pc = "returned" \/ ENABLED PlanTripResumes
    /\ planTripCall.pc = "returned" =>
          LET result == planTripCall.result[1] IN
          /\ result.success => result.data # << >> /\ result.error = << >>
          /\ ~result.success => result.data = << >> /\ result.error # << >>
          /\ Rejected # {} => ~result.success

C17_Witness ==
    /\ planTripCall.pc = "returned"
    /\ ~planTripCall.result[1].success
    /\ executions["activity"].status = "fulfilled"
    /\ executions["restaurant"].status = "rejected"

\* ------------------------------------------------------------------------
\* ApiService

Healthy(outcome) ==
    /\ outcome.settled = "fulfilled"
    /\ outcome.data # << >>
    /\ outcome.data[1].status = <<"healthy">>

\* C18: healthCheck is total and independent of any session.  It can be
\* called whatever the state of the connection is, it always returns and
\* never throws, it returns true exactly when the health endpoint answered
\* the request (a response with a 2xx HTTP status) with status 'healthy'
\* in its body and false for every other answer and for a failed request,
\* and a step of it leaves the state of the chat client, of its connection
\* and of the session as it is.
C18_HealthCheckTotalAndIndependent ==
    /\ [](/\ healthCheckCall.pc \in {"none", "awaiting", "returned"}
          /\ ENABLED (HealthCheck \/ HealthCheckSettles)
          /\ healthCheckCall.pc = "returned" =>
                healthCheckCall.result[1]
                    = Healthy(healthCheckCall.outcome[1]))
    /\ [][healthCheckCall' # healthCheckCall =>
             UNCHANGED <<chatVars, storeVars, providerVars>>]_vars

C18_Witness ==
    /\ healthCheckCall.pc = "returned"
    /\ healthCheckCall.outcome[1].settled = "fulfilled"
    /\ healthCheckCall.outcome[1].data = << >>
    /\ healthCheckCall.result[1] = FALSE
    /\ isConnected

\* ------------------------------------------------------------------------
\* Intent Classifier

PatternIntents(t) == {CompoundPatterns[i].intent : i \in CompoundMatches(t)}

NoKeyword(t) ==
    \A X \in Intents : \A k \in KeywordList(X) : ~Contains(t, k[1])

\* C12 as stated: a classified text without any keyword has intent
\* general-travel, and so has every text for which no score is above its
\* threshold or the best scores tie.
C12_DefaultIsGeneralTravel ==
    intent # "none" =>
        /\ NoKeyword(query) => intent = "general-travel"
        /\ Cardinality(BestIntents(query)) # 1 => intent = "general-travel"

\* C12: a classified text without any keyword has intent general-travel,
\* and so has every text that matches no compound pattern and for which
\* no score is above its threshold or the best scores tie.
C12_DefaultWithoutCompoundPattern ==
    intent # "none" =>
        /\ NoKeyword(query) => intent = "general-travel"
        /\ CompoundMatches(query) = {} /\ Cardinality(BestIntents(query)) # 1
              => intent = "general-travel"

C12_Witness ==
    /\ intent = "general-travel"
    /\ CompoundMatches(query) = {}
    /\ {"restaurant", "activity"} \subseteq BestIntents(query)

\* ------------------------------------------------------------------------
\* Session State Store

\* C13: merge_entities is last-wins and idempotent.  After an EntitySet E
\* was merged into the session, every kind present in E has E's value and
\* every kind absent from E has the value it had before; and merging the
\* E that was merged last once more leaves the session's EntitySet as it is.
C13_MergeIdempotentLastWins ==
    [][session.created =>
          /\ \A k \in Kinds :
                session'.entities[k] =
                    IF entity_set'[k] # NULL THEN entity_set'[k]
                    ELSE session.entities[k]
          /\ entity_set' = entity_set => session' = session]_vars

C13_Witness ==
    /\ session.created
    /\ \E k \in Kinds :
           entity_set[k] # NULL /\ session.entities[k] = entity_set[k]
    /\ \E k \in Kinds : entity_set[k] = NULL /\ session.entities[k] # NULL

\* ------------------------------------------------------------------------
\* WebSocketService: disconnect and reconnect

\* disconnectWebSocket has run: the component is unmounted
Unmounted == ~wsRef /\ \E s \in DOMAIN readyState : readyState[s] # "NONE"

\* C21: an explicit close is final.  Once disconnect() was called, whatever
\* close code the closing WebSocket reports to handleClose, no step
\* schedules a reconnect timer and no step creates a WebSocket (the owner
\* does not call connect() again after the unmount).
C21_ExplicitCloseIsFinal ==
    [][Unmounted =>
          /\ timers' \subseteq timers
          /\ \A s \in DOMAIN readyState :
                 readyState[s] = "NONE" => readyState'[s] = "NONE"]_vars

\* The code of the close event with which WebSocket s closes in this step:
\* a connection attempt that fails closes with 1006, every other close
\* event comes off the wire
ClosesWith(s) ==
    IF readyState[s] = "CONNECTING" THEN 1006 ELSE Head(wire).code

\* This step is a close event with a code other than 1000
AbnormalCloseArrives ==
    \E s \in DOMAIN readyState :
        /\ readyState[s] # "CLOSED"
        /\ readyState'[s] = "CLOSED"
        /\ ClosesWith(s) # NormalClosure

\* The service has used up its attempts: nothing is connecting or open and
\* no timer is pending
Exhausted ==
    /\ reconnectAttempts = maxReconnectAttempts
    /\ timers = {}
    /\ LiveSockets = {}

\* C22: reconnectAttempts is within 0..5.  It becomes 0 in every open event
\* and in no other step, and it grows by one, with one timer set, in every
\* abnormal close below 5.  At 5 an abnormal close sets no timer, leaves
\* the counter at 5 and reports through onError; from then on the service
\* creates no WebSocket.
C22_ReconnectAttemptsBounded ==
    /\ [](reconnectAttempts \in 0 .. maxReconnectAttempts)
    /\ [][/\ OpenArrives => reconnectAttempts' = 0
          /\ reconnectAttempts' < reconnectAttempts => OpenArrives
          /\ reconnectAttempts' > reconnectAttempts =>
                /\ AbnormalCloseArrives
                /\ reconnectAttempts' = reconnectAttempts + 1
          /\ AbnormalCloseArrives
                /\ reconnectAttempts < maxReconnectAttempts =>
                /\ reconnectAttempts' = reconnectAttempts + 1
                /\ Cardinality(timers' \ timers) = 1
          /\ AbnormalCloseArrives
                /\ reconnectAttempts = maxReconnectAttempts =>
                /\ reconnectAttempts' = maxReconnectAttempts
                /\ timers' \subseteq timers
                /\ connectionError' = "failed"
          /\ Exhausted =>
                \A s \in DOMAIN readyState :
                    readyState[s] = "NONE" => readyState'[s] = "NONE"]_vars

C22_Witness ==
    /\ Exhausted
    /\ connectionError = "failed"
    /\ wsRef
    /\ \E s \in DOMAIN readyState : readyState[s] = "NONE"

\* This step is a submit (handleSubmit or handleTripInputSubmit) of the
\* mounted chat while it is neither connected nor connecting: the only step
\* that shows "Connecting to the assistant. Please try again in a moment."
SubmitWhileDisconnected ==
    /\ wsRef
    /\ ~isConnected
    /\ ~isConnecting
    /\ connectionError # "connecting"
    /\ connectionError' = "connecting"

\* C23: a submit reconnects the chat.  Whenever the chat is neither
\* connected nor connecting, a submit starts a connection attempt: the step
\* creates a WebSocket.
C23_SubmitReconnects ==
    [][SubmitWhileDisconnected =>
          \E s \in DOMAIN readyState :
              readyState[s] = "NONE" /\ readyState'[s] = "CONNECTING"]_vars

\* The delay of reconnect attempt n, n = 1..5
ReconnectDelays == <<2000, 4000, 8000, 16000, 30000>>

\* C27: the timer of reconnect attempt n, counted since the last open
\* event, has the delay min(1000 * 2^n, 30000): 2000, 4000, 8000, 16000,
\* 30000 ms for n = 1..5; the delays do not decrease with n and none is
\* above 30000.
C27_ReconnectDelays ==
    /\ \A n \in 1 .. maxReconnectAttempts :
           /\ ReconnectDelays[n] = Min(1000 * Pow2(n), 30000)
           /\ ReconnectDelays[n] <= 30000
           /\ n > 1 => ReconnectDelays[n - 1] <= ReconnectDelays[n]
    /\ [](\A tm \in timers : tm.delay <= 30000)
    /\ [][\A tm \in timers' \ timers :
             /\ reconnectAttempts' \in 1 .. maxReconnectAttempts
             /\ reconnectAttempts' = reconnectAttempts + 1
             /\ tm.delay = ReconnectDelays[reconnectAttempts']]_vars

C27_Witness ==
    /\ reconnectAttempts = maxReconnectAttempts
    /\ \E tm \in timers : tm.delay = 30000

\* ------------------------------------------------------------------------
\* The chat: processing indicator, message ids

\* C24: the processing indicator follows the turn.  isProcessingMessage is
\* true after the step that sends a user message, and false after every
\* step that delivers a terminal signal of a turn (onTurnComplete or
\* onInterrupted, also for a turn that got no fragment) and after every
\* step that calls onClose or onError.
C24_ProcessingFollowsTurn ==
    [][/\ \A t \in Turns :
             /\ ~Sent(t) /\ Sent(t)' /\ turns'[t].status # "lost" =>
                   isProcessingMessage'
             /\ Terminals(t)' > Terminals(t) => ~isProcessingMessage'
       /\ CloseOrErrorArrives => ~isProcessingMessage']_vars

\* C28: the messages of the list have pairwise distinct ids
C28_MessageIdsDistinct ==
    \A i, j \in 1 .. Len(state.messages) :
        i # j => state.messages[i].id # state.messages[j].id

\* ------------------------------------------------------------------------
\* TripPlanning context

KnownTypes ==
    {"SET_TRIP_DATA", "SET_LOADING", "SET_ERROR", "ADD_MESSAGE",
     "SET_MESSAGES"}

\* C29: each action of tripPlanningReducer changes only its own part of the
\* state.  SET_TRIP_DATA, SET_LOADING and SET_ERROR leave messages as they
\* are; ADD_MESSAGE and SET_MESSAGES leave tripData, isLoading and error as
\* they are; ADD_MESSAGE puts its payload last and keeps every earlier
\* message; an action of an unknown type leaves the state as it is; and
\* isLoading is false right after SET_TRIP_DATA and after SET_ERROR.
C29_ReducerFrame ==
    [][dispatched' # << >> =>
          LET a == dispatched'[1] IN
          /\ a.type \in {"SET_TRIP_DATA", "SET_LOADING", "SET_ERROR"} =>
                state'.messages = state.messages
          /\ a.type \in {"ADD_MESSAGE", "SET_MESSAGES"} =>
                /\ state'.tripData = state.tripData
                /\ state'.isLoading = state.isLoading
                /\ state'.error = state.error
          /\ a.type = "ADD_MESSAGE" =>
                /\ Len(state'.messages) = Len(state.messages) + 1
                /\ state'.messages[Len(state'.messages)] = a.payload
                /\ SubSeq(state'.messages, 1, Len(state.messages))
                       = state.messages
          /\ a.type \notin KnownTypes => state' = state
          /\ a.type \in {"SET_TRIP_DATA", "SET_ERROR"} =>
                ~state'.isLoading]_vars

C29_Witness ==
    /\ dispatched # << >>
    /\ dispatched[1].type = "SET_ERROR"
    /\ dispatched[1].payload = 1
    /\ state.error = 1
    /\ state.tripData # NULL
    /\ Len(state.messages) = MaxMessages

\* ------------------------------------------------------------------------
\* AgentOrchestrator: what success means

\* C30: planTrip returns success = true only if the execute call of each
\* of the two agents was made and was fulfilled with a response that has
\* success = true.
C30_SuccessNeedsBothAgents ==
    planTripCall.pc = "returned" /\ planTripCall.result[1].success =>
        \A a \in AgentKeys :
            /\ executions[a].status = "fulfilled"
            /\ executions[a].settled[1].value.success

\* ------------------------------------------------------------------------
\* Trip planning

\* C26: planning completes at most once per start.  onPlanningComplete
\* has never been called more often than onPlanningStart; a timer of a
\* submit is pending only while the planning it belongs to is open; and
\* every step that calls onPlanningComplete calls it once, for an open
\* planning, and leaves no timer behind that could complete it again.
C26_CompletesAtMostOnce ==
    /\ [](/\ page.completed <= page.started
          /\ fallbackTimers # {} =>
                /\ isPlanningTrip
                /\ page.completed < page.started)
    /\ [][page.completed' # page.completed =>
             /\ page.completed' = page.completed + 1
             /\ isPlanningTrip \/ page.started' > page.started
             /\ ~isPlanningTrip'
             /\ fallbackTimers' = {}]_vars

C26_Witness ==
    /\ page.started = 2
    /\ page.completed = 2
    /\ state.tripData = ParsedTripData
    /\ processingTimer = NULL

\* C25: trip planning never stays in the loading state.  Whenever isLoading
\* is true after a planning request was accepted, isLoading is false again
\* later, whatever the backend sends or does not send; and the step that
\* makes it false is one that calls onPlanningComplete.
C25_PlanningNeverStaysLoading ==
    /\ [][state.isLoading /\ ~state'.isLoading =>
             page.completed' = page.completed + 1]_vars
    /\ (state.isLoading /\ page.started > 0) ~> ~state.isLoading

C25_Witness ==
    /\ page.started = 1
    /\ page.completed = 1
    /\ ~state.isLoading
    /\ state.tripData = createSampleTripData(<< >>)
    /\ turns[1].status = "streaming"
    /\ cb[1].frags = 0

====
